---- MODULE Spec2Model ----
(***************************************************************************)
(* A model of get_upstream_subwatersheds (src/utils.py, lines 149-329):    *)
(* the resolution of the HUC12 sub-watersheds upstream of a river against  *)
(* the remote HUC12 feature service.                                       *)
(*                                                                         *)
(* One call of the function is a sequential process; pc is its position.   *)
(* Every remote request is one action whose outcome (success, HTTP error,  *)
(* malformed payload) and payload are inputs.  The catalog's drains-to     *)
(* data (tohuc) is fixed for the duration of the call.                     *)
(*                                                                         *)
(* A HUC12 code is modelled as a pair <<b, k>>: b stands for the first 8   *)
(* characters of the code (its HUC8 basin), k for the remaining 4.         *)
(***************************************************************************)
EXTENDS Integers, Sequences, FiniteSets, TLC

\* ---------------------------------------------------------------- bounds

\* Longest candidate list a bbox query answers with.
MaxFeatures == 3

\* How many requests after the bbox query may fail in one call.
MaxFailures == 1

\* src/utils.py:256 sets max_iterations to 10000 pops; the model scales it
\* down to every value from 1 to MaxCap, so that the catalog can hold more
\* units than the cap allows to expand, as few, or fewer.
MaxCap == 3

\* src/utils.py:298 sets the batch size to 20; scaled down so that a small
\* upstream set is split into several batches.
ChunkSize == 2

\* ------------------------------------------------------------ the catalog

NoHuc == <<0, 0>>

\* The catalog: three units of basin 1 and one unit of basin 2.
Hucs == {<<1, 1>>, <<1, 2>>, <<1, 3>>, <<2, 1>>}

\* river_hucs['huc12'].str[:8]
Huc8(h) == h[1]

\* The drains-to attribute of every unit: another unit, or none (an outlet).
Graphs == {g \in [Hucs -> Hucs \cup {NoHuc}] : \A u \in Hucs : g[u] # u}

\* ------------------------------------------------------- sequence helpers

Range(s) == {s[i] : i \in DOMAIN s}

\* Every ordering of a finite set: list(a_set) iterates in an arbitrary order.
ListsOf(S) ==
    {s \in [1..Cardinality(S) -> S] : \A i, j \in 1..Cardinality(S) : i # j => s[i] # s[j]}

NoDup(s) == \A i, j \in DOMAIN s : i # j => s[i] # s[j]

\* ------------------------------------------------------------------ state

VARIABLES
    pc,                 \* position in get_upstream_subwatersheds
    tohuc,              \* the catalog's drains-to attribute of every unit
    crs,                \* river_gdf.crs: "none", "4326" or "other"
    bbox_sent,          \* bbox requests issued
    bbox_answer,        \* what the bbox request met: "failed", "empty", "no_hit", "hits"
    river_hucs,         \* huc12 of the candidates that intersect the river, in order
    primary_huc8,
    river_huc_codes,
    terminal_candidates,
    upstream,
    to_process,
    processed,
    iteration,
    max_iterations,
    expanded,           \* per code, the drain-target requests issued for it
    failed,             \* codes whose drain-target request raised
    partial,            \* codes whose drain-target answer held a malformed record
    failures,           \* failed requests so far (bounded by MaxFailures)
    warned,             \* the iteration-limit warning was printed
    fetch_list,         \* list(upstream) as iterated by chunks
    batch_num,
    lost_batches,       \* numbers of the batches that added no feature
    all_features,       \* huc12 of the features retrieved so far
    error,              \* the exception that left the function, or "none"
    frs_pc,             \* position in load_FRS_facilities
    state,              \* its argument state
    naics_name,         \* its argument naics_name
    limit,              \* its argument limit
    sparql_sent,        \* SPARQL queries sent
    df,                 \* the rows of the query's answer: their facilityWKT
    frs_error,          \* the exception that left load_FRS_facilities, or "none"
    app_pc,             \* position in handle_user_input
    GEOPANDAS_AVAILABLE,
    messages,           \* st.session_state.messages
    before,             \* messages as the running call of handle_user_input found them
    calls,              \* calls of handle_user_input so far
    user_input,
    stream_input,       \* the "messages" of the request given to the agent
    accumulated_text,
    stream_error,       \* the exception that ended the streaming, or "none"
    error_message,      \* the content the handler of lines 807-813 stores
    temp_files,         \* per file of the temp directory, what it holds
    geodataframes,      \* st.session_state.geodataframes, by name
    dataframes,         \* st.session_state.dataframes, by name
    generated_code      \* st.session_state.generated_code

vars == <<pc, tohuc, crs, bbox_sent, bbox_answer, river_hucs, primary_huc8,
          river_huc_codes, terminal_candidates, upstream, to_process, processed,
          iteration, max_iterations, expanded, failed, partial, failures, warned, fetch_list,
          batch_num, lost_batches, all_features, error,
          frs_pc, state, naics_name, limit, sparql_sent, df, frs_error,
          app_pc, GEOPANDAS_AVAILABLE, messages, before, calls, user_input, stream_input,
          accumulated_text, stream_error, error_message, temp_files, geodataframes, dataframes,
          generated_code>>

selVars == <<primary_huc8, river_huc_codes, terminal_candidates>>
travVars == <<upstream, to_process, processed, iteration, max_iterations, expanded, failed,
              partial, warned>>
fetchVars == <<fetch_list, batch_num, lost_batches, all_features>>
frsVars == <<frs_pc, state, naics_name, limit, sparql_sent, df, frs_error>>
huc12Vars == <<pc, tohuc, crs, bbox_sent, bbox_answer, river_hucs, selVars, travVars,
               failures, fetchVars, error>>

layerVars == <<temp_files, geodataframes, dataframes, generated_code>>
appVars == <<app_pc, GEOPANDAS_AVAILABLE, messages, before, calls, user_input, stream_input,
             accumulated_text, stream_error, error_message, layerVars>>

NoBasin == Huc8(NoHuc)

\* The files the agent is told to write into the temp directory, as name and
\* suffix, and what a file holds: nothing readable, no row, or rows.
Stems == {"a", "b"}

Files == {<<"a", "geojson">>, <<"b", "geojson">>, <<"a", "csv">>, <<"a", "py">>}

Contents == {"corrupt", "empty", "rows 1", "rows 2"}

\* An empty temp directory (line 60) and an empty dict (lines 49 and 51).
NoFiles == [f \in Files |-> "absent"]

NoLayers == [n \in Stems |-> "absent"]

\* The page is not handling an input: session state as lines 40-60 create it.
AppIdle ==
    /\ app_pc = "idle"
    /\ GEOPANDAS_AVAILABLE = TRUE
    /\ messages = <<>>
    /\ before = <<>>
    /\ calls = 0
    /\ user_input = ""
    /\ stream_input = <<>>
    /\ accumulated_text = <<>>
    /\ stream_error = "none"
    /\ error_message = <<>>
    /\ temp_files = NoFiles
    /\ geodataframes = NoLayers
    /\ dataframes = NoLayers
    /\ generated_code = <<>>

Init ==
    /\ pc = "check_crs"
    /\ tohuc \in Graphs
    /\ crs \in {"none", "4326", "other"}
    /\ bbox_sent = 0
    /\ bbox_answer = "none"
    /\ river_hucs = <<>>
    /\ primary_huc8 = NoBasin
    /\ river_huc_codes = {}
    /\ terminal_candidates = <<>>
    /\ upstream = {}
    /\ to_process = <<>>
    /\ processed = {}
    /\ iteration = 0
    /\ max_iterations = 0
    /\ expanded = [h \in Hucs |-> 0]
    /\ failed = {}
    /\ partial = {}
    /\ failures = 0
    /\ warned = FALSE
    /\ fetch_list = <<>>
    /\ batch_num = 0
    /\ lost_batches = {}
    /\ all_features = <<>>
    /\ error = "none"
    /\ frs_pc = "idle"
    /\ state = "" /\ naics_name = "" /\ limit = 0
    /\ sparql_sent = 0
    /\ df = <<>>
    /\ frs_error = "none"
    /\ AppIdle

\* --------------------------------------------------------------- requests

Sent_Twice(n) == n + 2

\* One blocking requests.get (lines 190, 280, 315) is one request issued and
\* answered before the next statement runs.
Sent(n) == n + 1

\* ------------------------------------------------- step 1: the river's CRS

CrsMissing_Never(c) == FALSE

\* Line 158, "river_gdf.crs is None".
CrsMissing(c) == c = "none"

\* Lines 157-161: no CRS raises ValueError; another CRS is reprojected.
CheckCRS ==
    /\ pc = "check_crs"
    /\ IF CrsMissing(crs)
         THEN /\ pc' = "raised"
              /\ error' = "ValueError: river_gdf must have a CRS defined"
              /\ crs' = crs
         ELSE /\ pc' = "query_bbox"
              /\ error' = error
              /\ crs' = IF crs = "other" THEN "4326" ELSE crs
    /\ UNCHANGED <<tohuc, bbox_sent, bbox_answer, river_hucs, selVars, travVars,
                   failures, fetchVars>>
    /\ UNCHANGED <<frsVars, appVars>>

\* --------------------------- steps 3-4: the bbox query and the intersection

\* A candidate of a bbox answer: a unit, and whether its polygon intersects
\* the river line.
Candidates == [huc12 : Hucs, hit : BOOLEAN]

IsHit(c) == c.hit

\* Lines 207-208: the rows of all_hucs_gdf whose geometry intersects the river.
Intersecting(features) ==
    LET hits == SelectSeq(features, IsHit)
    IN  [i \in DOMAIN hits |-> hits[i].huc12]

\* The candidate lists a bbox answer may hold.  Units of one basin are
\* interchangeable (tohuc ranges over every drains-to function), so the river
\* meets basin 1's units in catalog order; the other basin's unit and the
\* candidates the river misses may stand anywhere in the list.
CandidateLists ==
    {s \in UNION {[1..n -> Candidates] : n \in 0..MaxFeatures} :
        /\ \A i, j \in DOMAIN s : i < j => s[i].huc12 # s[j].huc12
        /\ LET hits == Intersecting(s)
           IN  /\ \A i, j \in DOMAIN hits :
                     (i < j /\ Huc8(hits[i]) = 1 /\ Huc8(hits[j]) = 1) => hits[i][2] < hits[j][2]
               /\ \A i \in DOMAIN hits : Huc8(hits[i]) = 1 =>
                     \A k \in 1..(hits[i][2] - 1) : \E j \in DOMAIN hits : hits[j] = <<1, k>>}

\* Line 200, "if not features".
NoFeatures(features) == Len(features) = 0

NoneIntersect_Never(rh) == FALSE

\* Line 212, "if len(river_hucs) == 0".
NoneIntersect(rh) == Len(rh) = 0

BboxErrorExit_Swallowed == "select"

\* Lines 190-195 stand in no try block: an exception of the bbox request
\* leaves the function.
BboxErrorExit == "raised"

\* Lines 190-195: the request fails on a non-2xx status (raise_for_status), on
\* a body that is not JSON (r.json()), or on an "error" member in the payload.
BboxErrors == {"HTTPError", "JSONDecodeError", "RuntimeError: API Error"}

\* Lines 190-213: the request, its failures, and the two emptiness checks.
BboxFails ==
    /\ pc = "query_bbox"
    /\ bbox_sent' = Sent(bbox_sent)
    /\ pc' = BboxErrorExit
    /\ \E e \in BboxErrors : error' = e
    /\ bbox_answer' = "failed"
    /\ UNCHANGED <<tohuc, crs, river_hucs, selVars, travVars, failures,
                   fetchVars>>
    /\ UNCHANGED <<frsVars, appVars>>

BboxAnswers ==
    /\ pc = "query_bbox"
    /\ bbox_sent' = Sent(bbox_sent)
    /\ \E features \in CandidateLists :
          /\ bbox_answer' = IF features = <<>> THEN "empty"
                            ELSE IF \A i \in DOMAIN features : ~features[i].hit THEN "no_hit"
                            ELSE "hits"
          /\ IF NoFeatures(features)
               THEN /\ river_hucs' = <<>>
                    /\ pc' = "raised"
                    /\ error' = "RuntimeError: No HUC12s found intersecting river bounds"
               ELSE /\ river_hucs' = Intersecting(features)
                    /\ IF NoneIntersect(Intersecting(features))
                         THEN /\ pc' = "raised"
                              /\ error' = "RuntimeError: No HUC12s intersect the river geometry"
                         ELSE /\ pc' = "select"
                              /\ error' = error
    /\ UNCHANGED <<tohuc, crs, selVars, travVars, failures, fetchVars>>
    /\ UNCHANGED <<frsVars, appVars>>

\* ------------------------------------------ step 5: the primary watershed

CountOf(s, x) == Cardinality({i \in DOMAIN s : s[i] = x})

\* Line 218, Series.value_counts(): one row per distinct label with the number
\* of its occurrences, in descending order of count.  The call passes no sort
\* kind, and the sort it gets (quicksort) is not stable: rows of equal count
\* come in an order the code does not fix, so every descending order is an
\* answer.
value_counts(labels) ==
    LET rows == {[label |-> x, count |-> CountOf(labels, x)] : x \in Range(labels)}
    IN  {s \in ListsOf(rows) : \A i, j \in DOMAIN s : i < j => s[i].count >= s[j].count}

idxmax_Last(counts) == counts[Len(counts)].label

\* Line 225, Series.idxmax(): the label of the first row holding the maximum.
idxmax(counts) ==
    LET top == {i \in DOMAIN counts : \A j \in DOMAIN counts : counts[j].count <= counts[i].count}
    IN  counts[CHOOSE i \in top : \A j \in top : i <= j].label

\* Line 217: the huc8 column of river_hucs.
Huc8Column(rh) == [i \in DOMAIN rh |-> Huc8(rh[i])]

InPrimary_All(rh, primary) == rh

\* Line 229: the rows of river_hucs in the primary watershed.
InPrimary(rh, primary) ==
    LET keep(h) == Huc8(h) = primary
    IN  SelectSeq(rh, keep)

\* Line 239: the row's TOHUC is empty or names no river unit of the primary
\* watershed.
IsTerminal(h, codes) == tohuc[h] = NoHuc \/ tohuc[h] \notin codes

TerminalRows(filtered, codes) ==
    LET term(h) == IsTerminal(h, codes)
    IN  SelectSeq(filtered, term)

Seeds_OneOnly(codes) == {CHOOSE c \in codes : TRUE}

\* Lines 250-251: the codes the traversal starts from.
Seeds(codes) == codes

\* Lines 215-257.  river_hucs is not empty here (line 212).
SelectBasin ==
    /\ pc = "select"
    /\ \E counts \in value_counts(Huc8Column(river_hucs)) :
          LET primary == idxmax(counts)
              filtered == InPrimary(river_hucs, primary)
              codes == Range(filtered)
          IN  /\ primary_huc8' = primary
              /\ river_huc_codes' = codes
              /\ terminal_candidates' = TerminalRows(filtered, codes)
              /\ upstream' = Seeds(codes)
              /\ \E order \in ListsOf(Seeds(codes)) : to_process' = order
    /\ \E cap \in 1..MaxCap : max_iterations' = cap
    /\ pc' = "traverse"
    /\ UNCHANGED <<tohuc, crs, bbox_sent, bbox_answer, river_hucs, processed, iteration,
                   expanded, failed, partial, warned, failures, fetchVars, error>>
    /\ UNCHANGED <<frsVars, appVars>>

\* ------------------------------------------------ step 7: the traversal

\* The rows of a set of units in the catalog's row order.
RECURSIVE CatalogOrder(_)
CatalogOrder(S) ==
    IF S = {} THEN <<>>
    ELSE LET first == CHOOSE u \in S : \A v \in S :
                          u[1] < v[1] \/ (u[1] = v[1] /\ u[2] <= v[2])
         IN  <<first>> \o CatalogOrder(S \ {first})

DrainedBy_Downstream(code) == IF tohuc[code] = NoHuc THEN <<>> ELSE <<tohuc[code]>>

\* The answer to "tohuc = '<code>'": every unit of the catalog that drains to
\* the code, whatever its basin, in the catalog's row order.
DrainedBy(code) == CatalogOrder({u \in Hucs : tohuc[u] = code})

StartsWith_Any(h, prefix) == TRUE

\* Line 286, h.startswith(primary_huc8).
StartsWith(h, prefix) == Huc8(h) = prefix

Admits_Again(h, primary, up) == Huc8(h) = primary

\* Line 286: the record is new and of the primary watershed.
Admits(h, primary, up) == StartsWith(h, primary) /\ h \notin up

Push_Dropped(tp, h) == tp

Push_Front(tp, h) == <<h>> \o tp

Push_Twice(tp, h) == Append(Append(tp, h), h)

\* Line 288, to_process.append(h).
Push(tp, h) == Append(tp, h)

PopFirst_Kept(tp) == [code |-> Head(tp), rest |-> tp]

PopFirst_Requeued(tp) == [code |-> Head(tp), rest |-> Append(Tail(tp), Head(tp))]

\* Line 261, to_process.pop(0): the code popped and the list left.
PopFirst(tp) == [code |-> Head(tp), rest |-> Tail(tp)]

add_Replace(up, h) == {h}

\* Line 287, upstream.add(h).
add(up, h) == up \cup {h}

ExpandWith_FirstOnly(records, primary, up, tp) ==
    IF records # <<>> /\ Huc8(Head(records)) = primary /\ Head(records) \notin up
    THEN [upstream |-> up \cup {Head(records)}, to_process |-> Append(tp, Head(records))]
    ELSE [upstream |-> up, to_process |-> tp]

\* Lines 283-288: the records of one answer, in order.
RECURSIVE ExpandWith(_, _, _, _)
ExpandWith(records, primary, up, tp) ==
    IF records = <<>> THEN [upstream |-> up, to_process |-> tp]
    ELSE LET h == Head(records)
         IN  IF Admits(h, primary, up)
             THEN ExpandWith(Tail(records), primary, add(up, h), Push(tp, h))
             ELSE ExpandWith(Tail(records), primary, up, tp)

LoopContinues_NoCap == to_process # <<>>

\* Line 259, the loop's condition.
LoopContinues == to_process # <<>> /\ iteration < max_iterations

\* Lines 259-290, one iteration of the loop.  The request either raises
\* (HTTP error, timeout, invalid JSON), or answers with well-formed records,
\* or answers with a record lacking attributes/huc12 after some well-formed
\* ones: the KeyError ends the for loop where it stands.
TraverseStep ==
    /\ pc = "traverse"
    /\ LoopContinues
    /\ iteration' = iteration + 1
    /\ LET p == PopFirst(to_process)
           cur == p.code
       IN  IF cur \in processed
           THEN /\ to_process' = p.rest
                /\ UNCHANGED <<upstream, processed, expanded, failed, partial, failures>>
           ELSE /\ processed' = processed \cup {cur}
                /\ expanded' = [expanded EXCEPT ![cur] = Sent(@)]
                /\ \E outcome \in {"answers", "raises", "malformed"} :
                     LET records == DrainedBy(cur)
                     IN \E bad \in 1..(Len(records) + 1) :
                         /\ outcome # "malformed" => bad = 1
                         /\ outcome # "answers" => failures < MaxFailures
                         /\ LET read == CASE outcome = "answers" -> records
                                          [] outcome = "raises" -> <<>>
                                          [] outcome = "malformed" -> SubSeq(records, 1, bad - 1)
                                e == ExpandWith(read, primary_huc8, upstream, p.rest)
                            IN  /\ upstream' = e.upstream
                                /\ to_process' = e.to_process
                         /\ failed' = IF outcome = "raises" THEN failed \cup {cur} ELSE failed
                         /\ partial' = IF outcome = "malformed" THEN partial \cup {cur} ELSE partial
                         /\ failures' = IF outcome = "answers" THEN failures ELSE failures + 1
    /\ UNCHANGED <<pc, tohuc, crs, bbox_sent, bbox_answer, river_hucs, selVars, warned,
                   max_iterations, fetchVars, error>>
    /\ UNCHANGED <<frsVars, appVars>>

\* ------------------------------------------- step 8: the geometry batches

Min(a, b) == IF a < b THEN a ELSE b

chunks_Whole(lst, n) == IF lst = <<>> THEN <<>> ELSE <<lst>>

\* Lines 298-300: lst[i:i + n] for i = 0, n, 2n, ...
chunks(lst, n) ==
    [k \in 1..((Len(lst) + n - 1) \div n) |-> SubSeq(lst, (k - 1) * n + 1, Min(k * n, Len(lst)))]

\* Line 304, list(upstream): the set is iterated in an arbitrary order.  A
\* request "huc12 IN (...)" does not depend on the order of its codes, so one
\* list stands for all that cut the set into the same batches: the one whose
\* batches are each in catalog order.
FetchOrders(S) ==
    {s \in ListsOf(S) :
        \A k \in DOMAIN chunks(s, ChunkSize) :
            chunks(s, ChunkSize)[k] = CatalogOrder(Range(chunks(s, ChunkSize)[k]))}

\* Lines 292-304: the loop is left, the warning is printed when the counter
\* reached the limit, and list(upstream) fixes the batches.
EndTraversal ==
    /\ pc = "traverse"
    /\ ~LoopContinues
    /\ warned' = (iteration >= max_iterations)
    /\ \E order \in FetchOrders(upstream) : fetch_list' = order
    /\ pc' = "fetch"
    /\ UNCHANGED <<tohuc, crs, bbox_sent, bbox_answer, river_hucs, selVars, upstream,
                   to_process, processed, iteration, max_iterations, expanded, failed,
                   partial, failures, batch_num, lost_batches, all_features, error>>
    /\ UNCHANGED <<frsVars, appVars>>

extend_Reset(features, batch) == batch

\* Line 319, all_features.extend(geojson_data["features"]).
extend(features, batch) == features \o batch

BatchErrorExit_Raised == "raised"

\* Lines 322-323: an exception of a batch request is caught and printed, and
\* the for loop goes on.
BatchErrorExit == "fetch"

\* Lines 304-323, one batch.  The request raises, or answers without a
\* "features" member (an error payload), or answers with the features of the
\* batch's codes.
FetchBatch ==
    /\ pc = "fetch"
    /\ batch_num < Len(chunks(fetch_list, ChunkSize))
    /\ batch_num' = Sent(batch_num)
    /\ \E outcome \in {"answers", "raises", "no_features"} :
          /\ outcome # "answers" => failures < MaxFailures
          /\ failures' = IF outcome = "answers" THEN failures ELSE failures + 1
          /\ all_features' = IF outcome = "answers"
                               THEN extend(all_features, chunks(fetch_list, ChunkSize)[batch_num + 1])
                               ELSE all_features
          /\ lost_batches' = IF outcome = "answers" THEN lost_batches
                               ELSE lost_batches \cup {batch_num + 1}
          /\ pc' = IF outcome = "raises" THEN BatchErrorExit ELSE pc
    /\ UNCHANGED <<tohuc, crs, bbox_sent, bbox_answer, river_hucs, selVars, travVars,
                   fetch_list, error>>
    /\ UNCHANGED <<frsVars, appVars>>

\* Line 328, GeoDataFrame.from_features(all_features, crs="EPSG:4326").  The
\* code does not test all_features for emptiness.  With no feature the frame
\* built has no geometry column, and what follows is left to the geopandas
\* build: an empty GeoDataFrame, or a ValueError for the CRS given to a frame
\* without geometry.
from_features(features) ==
    IF features = <<>>
    THEN {"returned", "ValueError: Assigning CRS to a GeoDataFrame without a geometry column"}
    ELSE {"returned"}

\* Lines 325-329: the features retrieved are returned as one GeoDataFrame.
Return ==
    /\ pc = "fetch"
    /\ batch_num = Len(chunks(fetch_list, ChunkSize))
    /\ \E outcome \in from_features(all_features) :
          IF outcome = "returned"
          THEN pc' = "returned" /\ error' = error
          ELSE pc' = "raised" /\ error' = outcome
    /\ UNCHANGED <<tohuc, crs, bbox_sent, bbox_answer, river_hucs, selVars, travVars,
                   failures, fetchVars>>
    /\ UNCHANGED <<frsVars, appVars>>

Next ==
    \/ CheckCRS
    \/ BboxFails
    \/ BboxAnswers
    \/ SelectBasin
    \/ TraverseStep
    \/ EndTraversal
    \/ FetchBatch
    \/ Return

Spec == Init /\ [][Next]_vars

\* =================================================== load_FRS_facilities
\* One call of load_FRS_facilities (src/utils.py, lines 18-146).

\* Largest limit argument tried; the answer holds at most limit rows.
MaxLimit == 2

\* Lines 67-81.
ALLOWED_STATES == {"Illinois", "Maine", "Ohio"}

ALLOWED_NAICS ==
    {"Waste Treatment and Disposal",
     "Converted Paper Manufacturing",
     "Water Supply and Irrigation",
     "Sewage Treatment",
     "Plastics Product Manufacturing",
     "Textile and Fabric Finishing and Coating",
     "Basic Chemical Manufacturing",
     "Paint, Coating, and Adhesive Manufacturing",
     "Aerospace Product and Parts",
     "Drycleaning and Laundry Services",
     "Carpet and Upholstery Cleaning Services",
     "Solid Waste Landfill"}

\* The arguments tried: the allowed ones, and others (another state, an
\* allowed name in another case, a part of a name, the empty string).
StateArgs == ALLOWED_STATES \cup {"Texas", "maine", ""}

NaicsArgs == ALLOWED_NAICS \cup {"Sewage", "sewage treatment"}

\* The facilityWKT of a row of the answer: missing, a point, or text that is
\* not WKT.
WktValues == {"NaN", "POINT", "not WKT"}

AnswersUpTo(n) == UNION {[1..k -> WktValues] : k \in 0..n}

\* The HUC12 resolution is not running.
Huc12Idle ==
    /\ pc = "idle"
    /\ tohuc = [h \in Hucs |-> NoHuc]
    /\ crs = "none"
    /\ bbox_sent = 0
    /\ bbox_answer = "none"
    /\ river_hucs = <<>>
    /\ primary_huc8 = NoBasin
    /\ river_huc_codes = {}
    /\ terminal_candidates = <<>>
    /\ upstream = {}
    /\ to_process = <<>>
    /\ processed = {}
    /\ iteration = 0
    /\ max_iterations = 0
    /\ expanded = [h \in Hucs |-> 0]
    /\ failed = {}
    /\ partial = {}
    /\ failures = 0
    /\ warned = FALSE
    /\ fetch_list = <<>>
    /\ batch_num = 0
    /\ lost_batches = {}
    /\ all_features = <<>>
    /\ error = "none"

InitFRS ==
    /\ Huc12Idle
    /\ frs_pc = "validate"
    /\ state \in StateArgs
    /\ naics_name \in NaicsArgs
    /\ limit \in 1..MaxLimit
    /\ sparql_sent = 0
    /\ df = <<>>
    /\ frs_error = "none"
    /\ AppIdle

StateAllowed_Any(s) == TRUE

\* Line 83, "state not in ALLOWED_STATES", negated.
StateAllowed(s) == s \in ALLOWED_STATES

\* Line 85, "naics_name not in ALLOWED_NAICS", negated.
NaicsAllowed(n) == n \in ALLOWED_NAICS

\* Lines 83-86: the two membership tests, the state's first.
FRSValidate ==
    /\ frs_pc = "validate"
    /\ IF ~StateAllowed(state)
         THEN frs_pc' = "raised" /\ frs_error' = "ValueError: Invalid state"
         ELSE IF ~NaicsAllowed(naics_name)
         THEN frs_pc' = "raised" /\ frs_error' = "ValueError: Invalid NAICS"
         ELSE frs_pc' = "query" /\ frs_error' = frs_error
    /\ UNCHANGED <<state, naics_name, limit, sparql_sent, df>>
    /\ UNCHANGED <<huc12Vars, appVars>>

\* Line 140, sparql_dataframe.get: the one query of the call.  It raises (the
\* endpoint is down or refuses the query) or answers with at most limit rows.
FRSQuery ==
    /\ frs_pc = "query"
    /\ sparql_sent' = sparql_sent + 1
    /\ \/ /\ frs_pc' = "raised"
          /\ frs_error' = "QueryError"
          /\ df' = df
       \/ /\ \E rows \in AnswersUpTo(limit) : df' = rows
          /\ frs_pc' = "process"
          /\ frs_error' = frs_error
    /\ UNCHANGED <<state, naics_name, limit>>
    /\ UNCHANGED <<huc12Vars, appVars>>

HasWkt(w) == w # "NaN"

\* Line 141, df.dropna(subset=["facilityWKT"]).
dropna(rows) == SelectSeq(rows, HasWkt)

\* Lines 141-146: rows without WKT are dropped, the others parsed (wkt.loads
\* raises on text that is not WKT), and the frame is returned.
FRSReturn ==
    /\ frs_pc = "process"
    /\ df' = dropna(df)
    /\ IF \E i \in DOMAIN dropna(df) : dropna(df)[i] = "not WKT"
         THEN frs_pc' = "raised" /\ frs_error' = "WKTReadingError"
         ELSE frs_pc' = "returned" /\ frs_error' = frs_error
    /\ UNCHANGED <<state, naics_name, limit, sparql_sent>>
    /\ UNCHANGED <<huc12Vars, appVars>>

NextFRS ==
    \/ FRSValidate
    \/ FRSQuery
    \/ FRSReturn

SpecFRS == InitFRS /\ [][NextFRS]_vars

\* ====================================================== handle_user_input
\* The chat handler of the page (src/app.py): handle_user_input (lines
\* 816-827), handle_user_input_async (lines 587-813), the loading of the files
\* the agent wrote (lines 394-452) and the "Clear All Data" button (lines
\* 876-881).  The content of a message is the list of the pieces of text it is
\* made of, so that "+=" on a content is a concatenation.

\* Exchanges already stored when the page is first looked at, at most.
MaxPrior == 5

\* Inputs handled after that, at most.
MaxCalls == 1

\* Line 605, messages[-10:].
HistoryWindow == 10

UserInputs == {"q1", "q2"}

\* Line 800.
default_msg == <<"I've processed your request.">>

\* Lines 616-623.
Instruction == <<"SYSTEM INSTRUCTION">>

Message(role, content) == [role |-> role, content |-> content]

\* One earlier exchange: an input and the answer stored for it.
Exchange(i) ==
    <<Message("user", <<IF i % 2 = 1 THEN "q1" ELSE "q2">>),
      Message("assistant", <<"answer">>)>>

RECURSIVE Session(_)
Session(k) == IF k = 0 THEN <<>> ELSE Session(k - 1) \o Exchange(k)

\* load_FRS_facilities is not running.
FRSIdle ==
    /\ frs_pc = "idle"
    /\ state = "" /\ naics_name = "" /\ limit = 0
    /\ sparql_sent = 0
    /\ df = <<>>
    /\ frs_error = "none"

append_Dropped(list, item) == list

\* list.append.
append(list, item) == Append(list, item)

\* Lines 893-896 and 816-818: an input was typed and handle_user_input is
\* called with it.
handle_user_input ==
    /\ app_pc \in {"idle", "returned"}
    /\ calls < MaxCalls
    /\ \E text \in UserInputs : user_input' = text
    /\ calls' = calls + 1
    /\ before' = messages
    /\ app_pc' = "run"
    /\ UNCHANGED <<GEOPANDAS_AVAILABLE, messages, stream_input, accumulated_text,
                   stream_error, error_message, layerVars>>
    /\ UNCHANGED <<huc12Vars, frsVars>>

\* Lines 820-824: asyncio.run refuses to start inside a running event loop,
\* before the coroutine has run; nest_asyncio is applied and the coroutine is
\* run again from its first line.
AsyncioRunRefused ==
    /\ app_pc = "run"
    /\ app_pc' = "rerun"
    /\ UNCHANGED <<GEOPANDAS_AVAILABLE, messages, before, calls, user_input, stream_input,
                   accumulated_text, stream_error, error_message, layerVars>>
    /\ UNCHANGED <<huc12Vars, frsVars>>

\* Line 589.
AppendUser ==
    /\ app_pc \in {"run", "rerun"}
    /\ messages' = append(messages, Message("user", <<user_input>>))
    /\ app_pc' = "build"
    /\ UNCHANGED <<GEOPANDAS_AVAILABLE, before, calls, user_input, stream_input,
                   accumulated_text, stream_error, error_message, layerVars>>
    /\ UNCHANGED <<huc12Vars, frsVars>>

recent_messages_All(msgs) == msgs

\* Line 605.
recent_messages(msgs) ==
    IF Len(msgs) > HistoryWindow
      THEN SubSeq(msgs, Len(msgs) - HistoryWindow + 1, Len(msgs))
      ELSE msgs

\* Lines 604-610: a new dict for each message, with the role and the content
\* of the stored one.
messages_with_history(msgs) ==
    [i \in DOMAIN recent_messages(msgs) |->
        Message(recent_messages(msgs)[i].role, recent_messages(msgs)[i].content)]

\* Lines 615-623: the instruction is added to the content of the last dict
\* of the list when its role is "user".
WithInstruction(msgs) ==
    IF msgs # <<>> /\ msgs[Len(msgs)].role = "user"
      THEN [msgs EXCEPT ![Len(msgs)].content = @ \o Instruction]
      ELSE msgs

\* Lines 601-631.  The dicts of the request are new ones, so the assignment to
\* the last one's content leaves the stored messages as they are.
BuildRequest ==
    /\ app_pc = "build"
    /\ stream_input' = WithInstruction(messages_with_history(messages))
    /\ accumulated_text' = <<>>
    /\ app_pc' = "stream"
    /\ UNCHANGED <<GEOPANDAS_AVAILABLE, messages, before, calls, user_input,
                   stream_error, error_message, layerVars>>
    /\ UNCHANGED <<huc12Vars, frsVars>>

\* The temp directory after a run of the agent: as it was, or with one file
\* written or overwritten.
AgentWrites(dir) ==
    {dir} \cup {[dir EXCEPT ![f] = c] : f \in Files, c \in Contents}

\* Lines 633-783, agent.astream: the text of the AI messages is accumulated
\* until the stream ends or raises.  What the agent writes for the request is
\* in the temp directory by then.
Stream ==
    /\ app_pc = "stream"
    /\ \E text \in {<<>>, <<"answer">>} : accumulated_text' = accumulated_text \o text
    /\ \E dir \in AgentWrites(temp_files) : temp_files' = dir
    /\ \/ app_pc' = "save" /\ stream_error' = stream_error
       \/ app_pc' = "fallback" /\ stream_error' = "StreamError"
    /\ UNCHANGED <<GEOPANDAS_AVAILABLE, messages, before, calls, user_input, stream_input,
                   error_message, geodataframes, dataframes, generated_code>>
    /\ UNCHANGED <<huc12Vars, frsVars>>

\* Line 808.
ErrorText(e) == <<"An error occurred: ", e>>

\* Lines 783-794, agent.ainvoke after a failed stream.  It raises; or its
\* result is no dict with "messages" and the stream's exception is raised
\* again; or the list of messages is empty and [-1] raises; or the last
\* message's content is a string (maybe the empty one) and replaces the text;
\* or it is no string and the text stays.
Fallback ==
    /\ app_pc = "fallback"
    /\ \/ /\ \E e \in {"InvokeError", stream_error, "IndexError"} :
                error_message' = ErrorText(e)
          /\ app_pc' = "except"
          /\ accumulated_text' = accumulated_text
       \/ /\ \E content \in {<<>>, <<"direct answer">>} : accumulated_text' = content
          /\ app_pc' = "save"
          /\ error_message' = error_message
       \/ /\ accumulated_text' = accumulated_text
          /\ app_pc' = "save"
          /\ error_message' = error_message
    /\ UNCHANGED <<GEOPANDAS_AVAILABLE, messages, before, calls, user_input, stream_input,
                   stream_error, layerVars>>
    /\ UNCHANGED <<huc12Vars, frsVars>>

\* Lines 797-802.
SaveResponse ==
    /\ app_pc = "save"
    /\ messages' = append(messages,
                          Message("assistant", IF accumulated_text # <<>>
                                                 THEN accumulated_text
                                                 ELSE default_msg))
    /\ app_pc' = "load"
    /\ UNCHANGED <<GEOPANDAS_AVAILABLE, before, calls, user_input, stream_input,
                   accumulated_text, stream_error, error_message, layerVars>>
    /\ UNCHANGED <<huc12Vars, frsVars>>

\* The coroutine returns and its local variables are gone.
Forgotten ==
    /\ stream_input' = <<>>
    /\ accumulated_text' = <<>>
    /\ stream_error' = "none"
    /\ error_message' = <<>>

\* Lines 807-813.
ErrorExit ==
    /\ app_pc = "except"
    /\ messages' = append(messages, Message("assistant", error_message))
    /\ app_pc' = "returned"
    /\ Forgotten
    /\ UNCHANGED <<GEOPANDAS_AVAILABLE, before, calls, user_input, layerVars>>
    /\ UNCHANGED <<huc12Vars, frsVars>>

\* gpd.read_file, pd.read_csv and f.read raise on a file they cannot read.
ReadFails(c) == c = "corrupt"

\* Lines 407 and 423, len(...) > 0.
HasRows(c) == c \in {"rows 1", "rows 2"}

\* What glob and the read find under a name.
Holds(dir, f) == IF f \in Files THEN dir[f] ELSE "absent"

\* Lines 404-411 and 420-427: every file with the suffix that is read and has
\* a row is stored under its stem, in place of what the name held.
Loaded(store, suffix, dir) ==
    [n \in Stems |-> IF HasRows(Holds(dir, <<n, suffix>>))
                       THEN dir[<<n, suffix>>]
                       ELSE store[n]]

\* Lines 436-444: the code of every file read, in the order glob lists them.
CodeLists(dir) ==
    LET read == {n \in Stems : Holds(dir, <<n, "py">>) \notin {"absent", "corrupt"}}
    IN  {[i \in DOMAIN names |-> [name |-> names[i], code |-> dir[<<names[i], "py">>]]] :
            names \in ListsOf(read)}

Unlinked_LoadedOnly(dir) ==
    [f \in Files |-> IF HasRows(dir[f]) THEN "absent" ELSE dir[f]]

\* Lines 414, 430 and 447: unlink follows the read in the same try, so the
\* files that were read are gone and the others stay.
Unlinked(dir) ==
    [f \in Files |-> IF ReadFails(dir[f]) THEN dir[f] ELSE "absent"]

\* Line 805 and lines 394-452.
load_and_cleanup_temp_files ==
    /\ app_pc = "load"
    /\ IF ~GEOPANDAS_AVAILABLE
         THEN UNCHANGED layerVars
         ELSE /\ geodataframes' = Loaded(geodataframes, "geojson", temp_files)
              /\ dataframes' = Loaded(dataframes, "csv", temp_files)
              /\ \E codes \in CodeLists(temp_files) : generated_code' = generated_code \o codes
              /\ temp_files' = Unlinked(temp_files)
    /\ app_pc' = "returned"
    /\ Forgotten
    /\ UNCHANGED <<GEOPANDAS_AVAILABLE, messages, before, calls, user_input>>
    /\ UNCHANGED <<huc12Vars, frsVars>>

\* Lines 876-881, the "Clear All Data" button.
ClearAll ==
    /\ app_pc \in {"idle", "returned"}
    /\ geodataframes' = NoLayers
    /\ dataframes' = NoLayers
    /\ generated_code' = <<>>
    /\ messages' = <<>>
    /\ before' = <<>>
    /\ app_pc' = "idle"
    /\ UNCHANGED <<GEOPANDAS_AVAILABLE, calls, user_input, stream_input, accumulated_text,
                   stream_error, error_message, temp_files>>
    /\ UNCHANGED <<huc12Vars, frsVars>>

\* What an earlier request of the session left in the temp directory: nothing,
\* or a GeoJSON file that cannot be read and one with rows.
PriorDirs ==
    {NoFiles,
     [NoFiles EXCEPT ![<<"a", "geojson">>] = "corrupt", ![<<"b", "geojson">>] = "rows 1"]}

\* The session when the page is looked at: some earlier exchanges are stored,
\* and what their files became when the last of them loaded them.
InitApp ==
    /\ Huc12Idle
    /\ FRSIdle
    /\ app_pc = "idle"
    /\ GEOPANDAS_AVAILABLE \in BOOLEAN
    /\ \E k \in 0..MaxPrior, dir \in PriorDirs :
          /\ k = 0 => dir = NoFiles
          /\ messages = Session(k)
          /\ geodataframes = IF GEOPANDAS_AVAILABLE
                               THEN Loaded(NoLayers, "geojson", dir)
                               ELSE NoLayers
          /\ temp_files = IF GEOPANDAS_AVAILABLE THEN Unlinked(dir) ELSE dir
    /\ before = messages
    /\ calls = 0
    /\ user_input = ""
    /\ stream_input = <<>>
    /\ accumulated_text = <<>>
    /\ stream_error = "none"
    /\ error_message = <<>>
    /\ dataframes = NoLayers
    /\ generated_code = <<>>

NextApp ==
    \/ handle_user_input
    \/ AsyncioRunRefused
    \/ AppendUser
    \/ BuildRequest
    \/ Stream
    \/ Fallback
    \/ SaveResponse
    \/ load_and_cleanup_temp_files
    \/ ErrorExit
    \/ ClearAll

SpecApp == InitApp /\ [][NextApp]_vars

\* ================================================================ claims

\* What the claims speak of, stated from the catalog and the river alone.

BasinUnits(b) == {u \in Hucs : u[1] = b}

\* The river's units of the selected basin.
RiverSeeds == {h \in Range(river_hucs) : h[1] = primary_huc8}

\* The units of the selected basin whose drains-to chain reaches S through
\* units of the basin, S included; the units in blocked are not expanded.
RECURSIVE UpstreamOf(_, _)
UpstreamOf(S, blocked) ==
    LET more == {u \in BasinUnits(primary_huc8) : tohuc[u] \in S \ blocked}
    IN  IF more \subseteq S THEN S ELSE UpstreamOf(S \cup more, blocked)

\* The unit k drains-to steps downstream of u (NoHuc past an outlet).
RECURSIVE Downstream(_, _)
Downstream(u, k) ==
    IF k = 0 \/ u = NoHuc THEN u ELSE Downstream(tohuc[u], k - 1)

OnCycle(u) == \E k \in 1..Cardinality(Hucs) : Downstream(u, k) = u

Acyclic == \A u \in Hucs : ~OnCycle(u)

\* u lies on a drains-to cycle that stays inside the selected basin.
OnBasinCycle(u) ==
    /\ u[1] = primary_huc8
    /\ \E k \in 1..Cardinality(Hucs) :
          /\ Downstream(u, k) = u
          /\ \A j \in 1..k : Downstream(u, j)[1] = primary_huc8

Traversing == pc \in {"traverse", "fetch", "returned"}

TraversalOver == pc \in {"fetch", "returned"}

NoDrainRequest == \A u \in Hucs : expanded[u] = 0

SingleBasin == \A i, j \in DOMAIN river_hucs : river_hucs[i][1] = river_hucs[j][1]

RiverCount(b) == Cardinality({i \in DOMAIN river_hucs : river_hucs[i][1] = b})

FirstRow(b) == CHOOSE i \in DOMAIN river_hucs :
                   /\ river_hucs[i][1] = b
                   /\ \A j \in DOMAIN river_hucs : river_hucs[j][1] = b => i <= j

RiverBasins == {river_hucs[i][1] : i \in DOMAIN river_hucs}

\* C1: when no drain-target request failed and the traversal ran until the
\* worklist was empty, the upstream set is exactly the ancestor closure of the
\* river's units under drains-to within the selected basin; for a single seed
\* that no unit drains into, it is that one unit.
C1_UpstreamIsAncestorClosure ==
    (TraversalOver /\ failed = {} /\ partial = {} /\ to_process = <<>>) =>
        /\ upstream = UpstreamOf(RiverSeeds, {})
        /\ (Cardinality(RiverSeeds) = 1 /\ (\A u \in Hucs : tohuc[u] \notin RiverSeeds))
              => upstream = RiverSeeds

\* A closure that holds a unit two steps upstream of the river, with a unit
\* of the other basin draining into it and left out.
C1_Witness ==
    /\ TraversalOver /\ failed = {} /\ partial = {} /\ to_process = <<>>
    /\ \E u \in upstream \ RiverSeeds : tohuc[u] \in upstream \ RiverSeeds
    /\ \E v \in Hucs \ upstream : tohuc[v] \in upstream

\* C2, as claimed: for a river inside a single basin the units returned are
\* a superset of the units the river intersects.
C2_ReturnedCoversRiver ==
    (pc = "returned" /\ SingleBasin) => Range(river_hucs) \subseteq Range(all_features)

\* C2, amended: for a river inside a single basin the upstream set handed to
\* the geometry fetch is a superset of the river's units, and so are the
\* units returned when every geometry batch answered with its features.
C2_UpstreamCoversRiver ==
    /\ (Traversing /\ SingleBasin) => Range(river_hucs) \subseteq upstream
    /\ (pc = "returned" /\ SingleBasin /\ lost_batches = {})
          => Range(river_hucs) \subseteq Range(all_features)

C2_Witness ==
    /\ pc = "returned" /\ SingleBasin /\ lost_batches = {}
    /\ Len(river_hucs) = 2
    /\ Range(river_hucs) \subseteq Range(all_features)
    /\ Range(all_features) # Range(river_hucs)

\* The upstream set expected when the expansions of the codes in failed are
\* lost: the full set less the units reachable only through them.
ExpectedWithout(lostCodes) ==
    UpstreamOf(RiverSeeds, {}) \ (UpstreamOf(RiverSeeds, {}) \ UpstreamOf(RiverSeeds, lostCodes))

\* C3, as claimed: when the drain-target request raised for exactly one code,
\* no exception leaves the traversal and the upstream set is the full set less
\* the units reachable only through the failed code.
C3_OneFailureLosesOneSubtree ==
    (TraversalOver /\ Cardinality(failed) = 1 /\ partial = {}) =>
        /\ error = "none"
        /\ upstream = ExpectedWithout(failed)

\* C3, amended: the same, for a traversal that ran until the worklist was
\* empty (the iteration cap did not stop it with codes left to expand).
C3_OneFailureLosesOneSubtreeUncapped ==
    (TraversalOver /\ Cardinality(failed) = 1 /\ partial = {} /\ to_process = <<>>) =>
        /\ error = "none"
        /\ upstream = ExpectedWithout(failed)
        /\ RiverSeeds \subseteq upstream

\* One failed code with a unit lost behind it, and a unit found past another
\* code.
C3_Witness ==
    /\ TraversalOver /\ Cardinality(failed) = 1 /\ partial = {} /\ to_process = <<>>
    /\ upstream # UpstreamOf(RiverSeeds, {})
    /\ upstream # RiverSeeds

\* C4, as claimed: on an acyclic drains-to graph with N units in the selected
\* basin the worklist is empty within N pops, every unit is expanded exactly
\* once, and all N codes are in the upstream set.
C4_TreeFullyVisited ==
    (TraversalOver /\ Acyclic) =>
        /\ to_process = <<>>
        /\ iteration <= Cardinality(BasinUnits(primary_huc8))
        /\ \A u \in BasinUnits(primary_huc8) : expanded[u] = 1
        /\ upstream = BasinUnits(primary_huc8)

\* C4, amended: on an acyclic drains-to graph with N units in the selected
\* basin the traversal makes at most N pops and expands no unit twice; the
\* worklist ends empty when the cap is at least N; and when moreover no
\* request failed and every unit of the basin drains through the basin into
\* a river unit, every unit is expanded exactly once and all N codes are in
\* the upstream set.
C4_TreeVisitedAtMostOnce ==
    (Traversing /\ Acyclic) =>
        /\ iteration <= Cardinality(BasinUnits(primary_huc8))
        /\ \A u \in Hucs : expanded[u] <= 1
        /\ (TraversalOver /\ max_iterations >= Cardinality(BasinUnits(primary_huc8)))
              => to_process = <<>>
        /\ (/\ TraversalOver /\ to_process = <<>> /\ failed = {} /\ partial = {}
            /\ UpstreamOf(RiverSeeds, {}) = BasinUnits(primary_huc8))
              => /\ upstream = BasinUnits(primary_huc8)
                 /\ \A u \in BasinUnits(primary_huc8) : expanded[u] = 1

\* A chain of the three units of basin 1 below one river unit, fully visited.
C4_Witness ==
    /\ TraversalOver /\ Acyclic /\ to_process = <<>> /\ failed = {} /\ partial = {}
    /\ Cardinality(RiverSeeds) = 1
    /\ Cardinality(upstream) = 3
    /\ \E u \in upstream : tohuc[u] \in upstream \ RiverSeeds
    /\ \A u \in upstream : expanded[u] = 1

\* C5, as claimed: with a drains-to cycle in the basin the traversal ends with
\* an empty worklist, and no unit of the cycle is expanded more than once.
C5_CycleEndsWithEmptyWorklist ==
    (TraversalOver /\ \E u \in upstream : OnBasinCycle(u)) =>
        /\ to_process = <<>>
        /\ \A u \in Hucs : OnBasinCycle(u) => expanded[u] <= 1

\* C5, amended: with a drains-to cycle in the basin no unit, on the cycle or
\* off it, is expanded more than once, the pops never outnumber the codes
\* collected, and the traversal ends with an empty worklist whenever the cap is
\* at least the number of codes collected.
C5_CycleExpandedOnce ==
    (Traversing /\ \E u \in upstream : OnBasinCycle(u)) =>
        /\ \A u \in Hucs : expanded[u] <= 1
        /\ iteration <= Cardinality(upstream)
        /\ (TraversalOver /\ Cardinality(upstream) <= max_iterations) => to_process = <<>>

\* Two units draining into each other, both expanded, the worklist empty.
C5_Witness ==
    /\ TraversalOver /\ to_process = <<>>
    /\ \E a, b \in upstream :
          /\ a # b /\ tohuc[a] = b /\ tohuc[b] = a
          /\ expanded[a] = 1 /\ expanded[b] = 1

\* C6: every code of the upstream set has the selected basin as its prefix.
C6_UpstreamInsideBasin ==
    Traversing => \A h \in upstream : h[1] = primary_huc8

\* The river meets a unit of another basin, and a unit of another basin drains
\* into an expanded code: neither is in the upstream set.
C6_Witness ==
    /\ Traversing
    /\ \E i \in DOMAIN river_hucs : river_hucs[i][1] # primary_huc8
    /\ \E v \in Hucs : v[1] # primary_huc8 /\ tohuc[v] \in processed \ (failed \cup partial)
    /\ \E u \in upstream : u \notin RiverSeeds

\* C7: a river without a CRS fails at once with the invalid-input error (the
\* ValueError of line 159), before any request is issued.
C7_MissingCrsFailsFirst ==
    (crs = "none" /\ pc # "check_crs") =>
        /\ pc = "raised" /\ error = "ValueError: river_gdf must have a CRS defined"
        /\ bbox_sent = 0 /\ NoDrainRequest /\ batch_num = 0

\* A river without a CRS, and the call over.
C7_Witness ==
    /\ crs = "none" /\ pc = "raised"
    /\ error = "ValueError: river_gdf must have a CRS defined"
    /\ bbox_sent = 0

\* C8: an empty bbox answer, or one none of whose candidates intersects the
\* river, fails with the no-intersection error (the RuntimeError of line 201
\* or of line 213), and no drain-target or geometry request is issued.
C8_NoIntersectionFails ==
    (bbox_answer \in {"empty", "no_hit"}) =>
        /\ pc = "raised"
        /\ error = (IF bbox_answer = "empty"
                      THEN "RuntimeError: No HUC12s found intersecting river bounds"
                      ELSE "RuntimeError: No HUC12s intersect the river geometry")
        /\ NoDrainRequest /\ batch_num = 0

\* Candidates were returned, none of them intersects the river.
C8_Witness ==
    /\ bbox_answer = "no_hit" /\ pc = "raised"
    /\ error = "RuntimeError: No HUC12s intersect the river geometry"

\* C9: the basin selected is the prefix shared by the largest number of the
\* river's units, and the river's codes kept are the units of that basin.
C9_LargestBasinSelected ==
    Traversing =>
        /\ primary_huc8 \in RiverBasins
        /\ \A b \in RiverBasins : RiverCount(b) <= RiverCount(primary_huc8)
        /\ river_huc_codes = RiverSeeds

\* The river meets two basins, one more often than the other.
C9_Witness ==
    /\ Traversing
    /\ \E b \in RiverBasins : RiverCount(b) < RiverCount(primary_huc8)

\* C10, as claimed: the basin selected is fixed by the candidate list, and of
\* two basins with equally many river units the one met first in the
\* candidate list is selected.
C10_TieGoesToFirstMet ==
    Traversing =>
        \A b \in RiverBasins :
            (b # primary_huc8 /\ RiverCount(b) = RiverCount(primary_huc8))
                => FirstRow(primary_huc8) < FirstRow(b)

\* C11: the traversal makes at most max_iterations pops; when the cap is
\* reached with codes left in the worklist the loop stops, no error is raised,
\* and every code collected (seeds, expanded codes, and codes enqueued but not
\* expanded) is in the upstream set, which is the set handed to the fetch.
C11_CapStopsAndKeepsCollected ==
    /\ Traversing => iteration <= max_iterations
    /\ (TraversalOver /\ to_process # <<>>) =>
          /\ iteration = max_iterations
          /\ error = "none"
          /\ RiverSeeds \cup processed \cup Range(to_process) \subseteq upstream
          /\ Range(fetch_list) = upstream
          /\ Len(fetch_list) = Cardinality(upstream)

\* The cap stopped the loop with a found, unexpanded code left in the
\* worklist, and that code's feature was returned.
C11_Witness ==
    /\ pc = "returned" /\ iteration = max_iterations
    /\ \E h \in Range(to_process) :
          /\ h \notin processed /\ h \notin RiverSeeds
          /\ h \in Range(all_features)

\* C12, as claimed: the iteration-limit warning is printed exactly when the
\* cap stopped the traversal with codes left in the worklist; a traversal
\* whose worklist became empty, be it on the pop whose number equals the cap,
\* ends without the warning.
C12_WarnedIffTruncated ==
    TraversalOver => (warned <=> to_process # <<>>)

\* The k-th batch of the fetch.
Batch(k) == chunks(fetch_list, ChunkSize)[k]

\* The codes of the first n batches, the lost ones left out, in order.
RECURSIVE KeptFeatures(_)
KeptFeatures(n) ==
    IF n = 0 THEN <<>>
    ELSE IF n \in lost_batches THEN KeptFeatures(n - 1)
    ELSE KeptFeatures(n - 1) \o Batch(n)

\* The number of codes in the lost batches among the first n.
RECURSIVE LostSize(_)
LostSize(n) ==
    IF n = 0 THEN 0
    ELSE LostSize(n - 1) + (IF n \in lost_batches THEN Len(Batch(n)) ELSE 0)

\* C13: a failed geometry batch raises nothing and loses only its own units:
\* the features of every other batch, earlier or later, are kept, and the
\* result counts the upstream codes less those of the failed batches.
C13_FailedBatchLosesOnlyItself ==
    /\ (pc \in {"fetch", "returned"}) =>
          /\ error = "none"
          /\ all_features = KeptFeatures(batch_num)
    /\ (pc = "returned") =>
          /\ batch_num = Len(chunks(fetch_list, ChunkSize))
          /\ Len(all_features) = Cardinality(upstream) - LostSize(batch_num)
          /\ Range(all_features) = upstream \ UNION {Range(Batch(k)) : k \in lost_batches}

\* Two batches, the first failed, the second kept and returned.
C13_Witness ==
    /\ pc = "returned" /\ error = "none"
    /\ lost_batches = {1} /\ batch_num = 2
    /\ all_features = Batch(2)

\* Every batch was requested and the function was left.
FetchDone ==
    /\ pc \in {"returned", "raised"}
    /\ fetch_list # <<>>
    /\ batch_num = Len(chunks(fetch_list, ChunkSize))

\* C14, as claimed: once every batch was requested the call fails exactly
\* when no feature was retrieved; an empty collection is never returned.
C14_EmptyResultFails ==
    FetchDone => (pc = "raised" <=> all_features = <<>>)

\* C15: a failure of the bbox request (bad status, body that is not JSON, or
\* an error member in the payload) leaves the function as an exception, and
\* no drain-target or geometry request is issued after it.
C15_BboxFailureIsFatal ==
    (bbox_answer = "failed") =>
        /\ pc = "raised"
        /\ error \in BboxErrors
        /\ bbox_sent = 1 /\ NoDrainRequest /\ batch_num = 0
        /\ upstream = {} /\ all_features = <<>>

\* The payload of the bbox answer held an error member.
C15_Witness ==
    /\ bbox_answer = "failed" /\ pc = "raised"
    /\ error = "RuntimeError: API Error"
    /\ bbox_sent = 1

\* C16, as claimed: a geometry batch that failed ends the call with a
\* remote-service error.
C16_BatchFailureIsFatal ==
    (lost_batches # {}) => (pc = "raised" /\ error \in BboxErrors)

\* C16, amended: a geometry batch that failed ends nothing: the loop goes on
\* without an error, every later batch is requested, and the call returns the
\* features of the other batches; only when no feature at all was retrieved
\* may the call end in an error, which is from_features' and not a
\* remote-service error.
C16_BatchFailureIsSkipped ==
    (lost_batches # {}) =>
        /\ pc \in {"fetch", "returned", "raised"}
        /\ (pc \in {"fetch", "returned"}) => error = "none"
        /\ (pc = "returned") => batch_num = Len(chunks(fetch_list, ChunkSize))
        /\ (pc = "raised") => (FetchDone /\ all_features = <<>> /\ error \notin BboxErrors)
        /\ (FetchDone /\ all_features # <<>>) => pc = "returned"

\* The last of two batches failed; the call returned the features of the first.
C16_Witness ==
    /\ pc = "returned" /\ error = "none"
    /\ lost_batches = {2}
    /\ all_features = Batch(1)

\* C17: load_FRS_facilities raises ValueError when the state or the NAICS
\* name is not an allowed one, before any SPARQL query is sent; for an allowed
\* pair the query is sent exactly once.
C17_FRSValidatesBeforeQuery ==
    /\ sparql_sent <= 1
    /\ (frs_pc \notin {"idle", "validate"} /\ state \notin ALLOWED_STATES) =>
          /\ frs_pc = "raised" /\ frs_error = "ValueError: Invalid state"
          /\ sparql_sent = 0
    /\ (frs_pc \notin {"idle", "validate"} /\ state \in ALLOWED_STATES
            /\ naics_name \notin ALLOWED_NAICS) =>
          /\ frs_pc = "raised" /\ frs_error = "ValueError: Invalid NAICS"
          /\ sparql_sent = 0
    /\ (frs_pc \in {"process", "returned", "raised"} /\ state \in ALLOWED_STATES
            /\ naics_name \in ALLOWED_NAICS) =>
          sparql_sent = 1

\* An allowed state in lower case is refused without a query.
C17_Witness ==
    /\ state = "maine" /\ naics_name = "Sewage Treatment"
    /\ frs_pc = "raised" /\ frs_error = "ValueError: Invalid state"
    /\ sparql_sent = 0

\* C18: in every step of a resolution call the upstream set only grows (no
\* code in it is ever removed), and no code has more than one drain-target
\* request issued for it.
C18_UpstreamGrowsExpandedOnce ==
    [][/\ upstream \subseteq upstream'
       /\ \A u \in Hucs : expanded[u] <= expanded'[u] /\ expanded'[u] <= 1]_vars

\* The traversal is over, it found codes beyond the river's, every code was
\* expanded once, and one answer named a code that was in the set already.
C18_Witness ==
    /\ TraversalOver /\ to_process = <<>>
    /\ upstream # RiverSeeds
    /\ \A u \in upstream : expanded[u] = 1
    /\ \E u \in RiverSeeds : tohuc[u] \in upstream /\ tohuc[u] \notin failed \cup partial

\* C19: the traversal starts with the worklist and the upstream set both equal
\* to the river's units of the selected basin: the river's units of other
\* basins are left out, and the units kept do not depend on which of them are
\* terminal.
C19_TraversalStartsFromRiverUnits ==
    (pc = "traverse" /\ iteration = 0) =>
        /\ upstream = RiverSeeds
        /\ Range(to_process) = RiverSeeds
        /\ NoDup(to_process)
        /\ processed = {}
        /\ Range(terminal_candidates) \subseteq upstream

\* The river meets a unit of another basin and two units of the selected one,
\* of which one is terminal and the other drains into it.
C19_Witness ==
    /\ pc = "traverse" /\ iteration = 0
    /\ \E i \in DOMAIN river_hucs : river_hucs[i][1] # primary_huc8
    /\ Len(terminal_candidates) = 1
    /\ Cardinality(upstream) = 2
    /\ Range(to_process) = upstream

\* C20, as claimed: a drain-target step that fails, for whatever reason, adds
\* no code to the upstream set or to the worklist; it only marks the popped
\* code processed.
C20_FailedStepAddsNothing ==
    [][(pc = "traverse" /\ failures' > failures) =>
          /\ upstream' = upstream
          /\ to_process' = Tail(to_process)
          /\ processed' = processed \cup {Head(to_process)}]_vars

\* C21, as claimed: a failed drain-target request does not end the traversal
\* and is not retried: the failed code stays processed, no second request is
\* issued for it, and every other code left in the worklist is still popped
\* and expanded.
C21_FailureNeverStopsOthers ==
    (Traversing /\ failed # {}) =>
        /\ error = "none"
        /\ failed \subseteq processed
        /\ \A u \in failed : expanded[u] = 1
        /\ TraversalOver => (to_process = <<>> /\ \A u \in upstream : expanded[u] = 1)

\* C21, amended: the same, except that the codes left in the worklist are
\* popped and expanded only as far as the iteration cap allows: the loop ends
\* with an empty worklist and every collected code expanded once, or with the
\* counter at the cap.
C21_FailureNeverRetried ==
    (Traversing /\ failed # {}) =>
        /\ error = "none"
        /\ failed \subseteq processed
        /\ \A u \in failed : expanded[u] = 1 /\ u \notin Range(to_process)
        /\ TraversalOver =>
              \/ to_process = <<>> /\ \A u \in upstream : expanded[u] = 1
              \/ iteration = max_iterations /\ to_process # <<>>

\* The request of a river unit failed, and a unit found through another river
\* unit, hence enqueued behind the failed one, was popped and expanded all the
\* same; the worklist is empty.
C21_Witness ==
    /\ pc = "traverse" /\ to_process = <<>>
    /\ Cardinality(failed) = 1 /\ failed \subseteq RiverSeeds
    /\ iteration = 3
    /\ \E u \in processed \ RiverSeeds : expanded[u] = 1 /\ tohuc[u] \in RiverSeeds \ failed

\* C22: the fetch cuts the n upstream codes into batches of at most ChunkSize
\* codes: ceil(n / ChunkSize) batch requests are issued, every upstream code is
\* requested in exactly one batch, and no batch is empty.
C22_BatchesPartitionUpstream ==
    (pc \in {"fetch", "returned"} \/ FetchDone) =>
        LET cs == chunks(fetch_list, ChunkSize)
        IN  /\ Len(cs) = (Cardinality(upstream) + ChunkSize - 1) \div ChunkSize
            /\ \A k \in DOMAIN cs : Len(cs[k]) >= 1 /\ Len(cs[k]) <= ChunkSize
            /\ \A u \in upstream :
                  Cardinality({<<k, i>> \in (DOMAIN cs) \X (1..ChunkSize) :
                                  i <= Len(cs[k]) /\ cs[k][i] = u}) = 1
            /\ \A k \in DOMAIN cs : Range(cs[k]) \subseteq upstream
            /\ batch_num <= Len(cs)
            /\ (pc # "fetch") => batch_num = Len(cs)

\* Three upstream codes fetched in a full batch and a batch of one.
C22_Witness ==
    /\ pc = "returned"
    /\ Cardinality(upstream) = ChunkSize + 1
    /\ batch_num = 2
    /\ Len(Batch(1)) = ChunkSize /\ Len(Batch(2)) = 1

\* The units of the catalog, listed once.
HucList == CatalogOrder(Hucs)

\* The drain-target requests issued so far, over all codes.
DrainRequests ==
    LET sum[n \in 0..Len(HucList)] ==
            IF n = 0 THEN 0 ELSE sum[n - 1] + expanded[HucList[n]]
    IN  sum[Len(HucList)]

\* C23: the requests of a call are issued one at a time and in phases: the
\* bbox request is the first and only one of its kind, every drain-target
\* request comes after it and before the first geometry batch, and no step
\* issues more than one request.
C23_RequestsInPhases ==
    /\ [](/\ bbox_sent <= 1
          /\ (DrainRequests > 0 \/ batch_num > 0) => bbox_sent = 1)
    /\ [][LET drains == DrainRequests
              drainsAfter == DrainRequests'
          IN  /\ (bbox_sent' + drainsAfter + batch_num')
                     - (bbox_sent + drains + batch_num) \in {0, 1}
              /\ (bbox_sent' # bbox_sent) => (drains = 0 /\ batch_num = 0)
              /\ (drainsAfter # drains) => (bbox_sent = 1 /\ batch_num = 0)
              /\ (batch_num > 0) => drainsAfter = drains]_vars

\* All three kinds of request were issued, several of the last two.
C23_Witness ==
    /\ pc = "returned"
    /\ bbox_sent = 1 /\ DrainRequests = 3 /\ batch_num = 2

IsPrefix(s, t) == Len(s) <= Len(t) /\ SubSeq(t, 1, Len(s)) = s

\* The number of drains-to steps from u down to the first river unit of the
\* selected basin.
Dist(u) ==
    LET ks == {k \in 0..Cardinality(Hucs) : Downstream(u, k) \in RiverSeeds}
    IN  CHOOSE k \in ks : \A j \in ks : k <= j

\* C24: the worklist is first in, first out: every step pops the front code
\* and leaves the rest in place, new codes going to the end; and, when no
\* request failed, a unit at a smaller drains-to distance from the river's
\* units is expanded before any unit at a larger one: the worklist is in
\* order of distance and no code in it is nearer than a code already popped.
C24_WorklistIsFifo ==
    /\ []((pc = "traverse" /\ failed = {} /\ partial = {}) =>
            /\ \A i, j \in DOMAIN to_process :
                  i < j => Dist(to_process[i]) <= Dist(to_process[j])
            /\ \A u \in processed : \A i \in DOMAIN to_process :
                  Dist(u) <= Dist(to_process[i]))
    /\ [][(pc = "traverse" /\ pc' = "traverse") =>
             /\ processed' = processed \cup {Head(to_process)}
             /\ IsPrefix(Tail(to_process), to_process')]_vars

\* Both river units were popped, and a unit draining into one of them is at
\* the front of the worklist: it waited for the second river unit.
C24_Witness ==
    /\ pc = "traverse" /\ failed = {} /\ partial = {}
    /\ Cardinality(RiverSeeds) = 2 /\ processed = RiverSeeds
    /\ to_process # <<>>
    /\ tohuc[Head(to_process)] \in RiverSeeds

\* C25, as claimed: a river unit of the selected basin is among the terminal
\* candidates exactly when its drains-to code is empty or names a code outside
\* the selected basin.
C25_TerminalIffLeavesBasin ==
    Traversing =>
        \A h \in RiverSeeds :
            (h \in Range(terminal_candidates))
                <=> (tohuc[h] = NoHuc \/ tohuc[h][1] # primary_huc8)

\* C26: at every iteration of the loop the worklist holds no code twice and
\* no processed code, and the upstream set is the disjoint union of the
\* processed set and the worklist; hence no code is popped twice (the 'already
\* processed' branch is never taken) and there are as many drain-target
\* requests as pops.
C26_WorklistDisjointFromProcessed ==
    Traversing =>
        /\ NoDup(to_process)
        /\ Range(to_process) \cap processed = {}
        /\ upstream = processed \cup Range(to_process)
        /\ DrainRequests = iteration
        /\ iteration = Cardinality(processed)

\* In the middle of the loop: two codes popped, one found, and an answer that
\* named a river unit already collected.
C26_Witness ==
    /\ pc = "traverse" /\ iteration = 2 /\ to_process # <<>>
    /\ upstream # RiverSeeds
    /\ \E v \in RiverSeeds : tohuc[v] \in processed \ (failed \cup partial)

\* C27: in every state of a call, after failed requests and after the cap
\* stopped the loop included, every code of the upstream set is a river unit
\* of the selected basin or a unit of that basin answered as draining to a
\* code that was in the set and expanded; so the set holds no unit that is not
\* upstream of, or one of, the river's units within the basin.
C27_UpstreamIsSound ==
    Traversing =>
        /\ \A u \in upstream :
              \/ u \in RiverSeeds
              \/ /\ u[1] = primary_huc8
                 /\ tohuc[u] \in upstream \cap processed
        /\ upstream \subseteq UpstreamOf(RiverSeeds, {})

\* A request failed, the cap stopped the loop with a code left, and the set
\* holds codes beyond the river's.
C27_Witness ==
    /\ TraversalOver
    /\ failed # {} /\ to_process # <<>>
    /\ upstream # RiverSeeds
    /\ \E v \in Hucs \ upstream : tohuc[v] \in upstream

\* ------------------------------------------------------------------- C28

Alternates(msgs) ==
    \A i \in DOMAIN msgs : msgs[i].role = (IF i % 2 = 1 THEN "user" ELSE "assistant")

\* C28: every call of handle_user_input appends exactly one user message and
\* then exactly one assistant message to the stored messages, whichever way
\* the answer came (streamed, replaced by the default text, obtained by the
\* direct invocation after a failed stream, or an error), so the stored
\* messages alternate user and assistant.  Before the coroutine's first line
\* the list is as the call found it; up to the saving of the answer it holds
\* the input in addition; from then on the input and one assistant message.
C28_OneUserThenOneAssistant ==
    /\ app_pc \in {"run", "rerun"} => messages = before
    /\ app_pc \in {"build", "stream", "fallback", "save", "except"} =>
          messages = before \o <<Message("user", <<user_input>>)>>
    /\ app_pc \in {"load", "returned"} =>
          /\ Len(messages) = Len(before) + 2
          /\ SubSeq(messages, 1, Len(before) + 1) =
                 before \o <<Message("user", <<user_input>>)>>
          /\ messages[Len(messages)].role = "assistant"
    /\ app_pc \in {"idle", "returned"} => Alternates(messages)

\* A call in a session of earlier exchanges has returned through the error
\* handler: the stream failed and the direct invocation gave no usable result.
C28_Witness ==
    /\ app_pc = "returned"
    /\ calls = 1
    /\ Len(before) >= 4
    /\ messages[Len(messages)].content = ErrorText("StreamError")

\* ------------------------------------------------------------------- C29

\* What one run of the loading does with the file f of the kind kept in
\* store: read and deleted, stored under its stem only if it has a row, in
\* place of what the name held; or not read, and then left where it is with
\* the name's entry as it was.
Consumed(f, store, storeAfter) ==
    /\ temp_files[f] \in {"empty", "rows 1", "rows 2"} =>
          /\ temp_files'[f] = "absent"
          /\ storeAfter[f[1]] = (IF temp_files[f] = "empty" THEN store[f[1]] ELSE temp_files[f])
    /\ temp_files[f] = "corrupt" =>
          /\ temp_files'[f] = "corrupt"
          /\ storeAfter[f[1]] = store[f[1]]

\* C29: load_and_cleanup_temp_files consumes each generated file at most once.
\* A GeoJSON or CSV file that is read is deleted from the temp directory
\* whether or not it has rows, and is stored under its stem, replacing the
\* entry of that name, only if it has at least one row; a file whose read
\* fails is neither stored nor deleted; and this holds of every file of the
\* directory whatever happened to the others.
C29_ReadFilesAreConsumed ==
    [][(app_pc = "load" /\ app_pc' = "returned" /\ GEOPANDAS_AVAILABLE) =>
          \A f \in Files :
              /\ f[2] = "geojson" => Consumed(f, geodataframes, geodataframes')
              /\ f[2] = "csv" => Consumed(f, dataframes, dataframes')]_vars

\* A run of the loading has met a GeoJSON file it could not read and another
\* one with rows that took the place of the layer of the same name: the first
\* is still there, the second is gone and stored.
C29_Witness ==
    /\ app_pc = "returned"
    /\ GEOPANDAS_AVAILABLE
    /\ messages[Len(messages)].role = "assistant"
    /\ temp_files[<<"a", "geojson">>] = "corrupt"
    /\ temp_files[<<"b", "geojson">>] = "absent"
    /\ geodataframes["b"] = "rows 2"

\* ------------------------------------------------------------------- C30

\* C30: the history given to the agent for a request is a copy of at most the
\* 10 most recent stored messages and ends with the new user message; the
\* hidden instruction is at the end of that last message of the copy only,
\* and the stored messages are what they were before the request was built:
\* the earlier ones and the input as typed.
C30_RequestIsRecentCopy ==
    app_pc \in {"stream", "fallback"} =>
        LET n == Len(messages)
            k == Len(stream_input)
        IN  /\ k = Min(n, 10)
            /\ \A i \in 1..(k - 1) : stream_input[i] = messages[n - k + i]
            /\ stream_input[k] = Message("user", <<user_input>> \o Instruction)
            /\ messages = before \o <<Message("user", <<user_input>>)>>

\* A request was built in a session that stores more than 10 messages.
C30_Witness ==
    /\ app_pc = "stream"
    /\ Len(messages) > 10
    /\ Len(stream_input) = 10
    /\ stream_input[1] = messages[Len(messages) - 9]

====
